---- MODULE Spec2Model ----
(***************************************************************************)
(* The hotel booking dashboard (src/hotel_dashbord.py) as a state machine.  *)
(* One script run is the sequence load -> preprocess -> sidebar -> filter   *)
(* -> title -> panels 1..11 -> footer; a user interaction starts the next   *)
(* run.  Tables are sequences of rows (records keyed by column name).       *)
(***************************************************************************)
EXTENDS Integers, Sequences, FiniteSets, TLC

VARIABLES
    disk,         \* hotel_bookings.csv on disk: [exists, columns, rows]
    cache,        \* st.cache_data entry of load_data: [full, value]
    reads,        \* pd.read_csv calls since the cache was last empty
    derivs,       \* executions of lines 20-22 since the file was last read
    runsSince,    \* script runs that called load_data since the file was last read
    runs,         \* script runs started in this session
    hotelSel,     \* widget state of the "Hotel Type" multiselect
    monthSel,     \* widget state of the "Arrival Month" multiselect
    faulty,       \* panels whose plotting / rendering calls raise in this run
    pc,           \* position of the script
    df,           \* the run's table (line 15)
    hotel_type,   \* line 26
    month,        \* line 27
    df_filtered,  \* line 29
    surface,      \* elements emitted to the page by the current run
    log           \* records written by logging.error in the current run

vars == <<disk, cache, reads, derivs, runsSince, runs, hotelSel, monthSel,
          faulty, pc, df, hotel_type, month, df_filtered, surface, log>>

----------------------------------------------------------------------------
(* Bounds of the model *)

MaxRuns == 3
MaxSel == 2

----------------------------------------------------------------------------
(* Values *)

City == "City Hotel"
Resort == "Resort Hotel"
NaN == "nan"              \* a missing cell of a text column
NaT == <<>>               \* pd.NaT
Absent == <<>>            \* a float NaN in a numeric series
Some(n) == <<n>>          \* a present number in a series that may hold NaN

month_order == <<"January", "February", "March", "April", "May", "June",
                 "July", "August", "September", "October", "November", "December">>

TopN == 10

DateCols == {"arrival_date_year", "arrival_date_month", "arrival_date_day_of_month"}

AllCols == DateCols \cup
           {"hotel", "is_canceled", "lead_time", "stays_in_weekend_nights",
            "stays_in_week_nights", "adults", "children", "babies", "country",
            "market_segment", "distribution_channel", "adr"}

Range(s) == {s[i] : i \in DOMAIN s}

Min2(a, b) == IF a < b THEN a ELSE b

\* The first n elements of s: Series.head(n) on the values.
head(s, n) == SubSeq(s, 1, Min2(n, Len(s)))

\* pandas unique(): the distinct values in order of first appearance.
Unique(s) ==
    LET first == {i \in DOMAIN s : \A j \in 1..(i - 1) : s[j] # s[i]}
        F[i \in 0..Len(s)] ==
            IF i = 0 THEN <<>>
            ELSE IF i \in first THEN Append(F[i - 1], s[i]) ELSE F[i - 1]
    IN  F[Len(s)]

Column(rows, c) == [i \in DOMAIN rows |-> rows[i][c]]

\* Series.isin(values): membership; a NaN cell matches a NaN among the values.
IsIn(v, values) == \E i \in DOMAIN values : values[i] = v

\* The sequences of at most n distinct elements of S.
RECURSIVE Picks(_, _)
Picks(S, n) ==
    IF n = 0 THEN {<<>>}
    ELSE {<<>>} \cup UNION {{<<x>> \o q : q \in {p \in Picks(S, n - 1) : x \notin Range(p)}} : x \in S}

----------------------------------------------------------------------------
(* The dataset files the model draws from *)

Countries == <<"PRT", "GBR", "ESP", "FRA">>

Row(h, mo, d, ca, co, a, i) ==
    [hotel |-> h, arrival_date_month |-> mo, arrival_date_year |-> 2016,
     arrival_date_day_of_month |-> d, is_canceled |-> ca, country |-> co, adr |-> a,
     lead_time |-> (i * 7) % 30,
     market_segment |-> IF i <= 6 THEN "Online TA" ELSE IF i <= 10 THEN "Direct" ELSE "Groups",
     distribution_channel |-> IF i <= 7 THEN "TA/TO" ELSE IF i <= 11 THEN "Direct" ELSE "Corporate",
     stays_in_week_nights |-> i % 4, stays_in_weekend_nights |-> i % 2,
     adults |-> 2, children |-> i % 2, babies |-> 0]

\* One booking per calendar month; v picks the order of the months and how the
\* hotels, cancellations, countries and rates are spread over them.
CalRow(i, v) ==
    Row(IF (i + v) % 3 = 0 THEN Resort ELSE City,
        IF v % 2 = 1 THEN month_order[i] ELSE month_order[13 - i],
        IF i % 4 = 0 THEN 31 ELSE 15,
        CASE v = 1 -> (IF i % 3 = 1 THEN 1 ELSE 0)
          [] v = 2 -> (IF i % 3 = 1 THEN 0 ELSE 1)
          [] OTHER -> i % 2,
        IF i <= 5 THEN Countries[1] ELSE IF i <= 8 THEN Countries[2]
        ELSE IF i <= 10 THEN Countries[3] ELSE IF i = 11 THEN Countries[4] ELSE NaN,
        50 + 10 * ((i * v) % 5),
        i)

Variants == {1, 2, 3}

Calendar(v) == [i \in 1..12 |-> CalRow(i, v)]

\* What a file may hold after (or instead of) the calendar rows: nothing, a second
\* July booking, a booking in a month that is no month name, or a booking whose
\* hotel and month cells are empty.
Tails ==
    {<<>>,
     <<Row(City, "July", 15, 1, "PRT", 80, 13)>>,
     <<Row(City, "Smarch", 15, 1, "PRT", 80, 13)>>,
     <<Row(NaN, NaN, 15, 1, "PRT", 80, 13)>>}

File(cols, rows) == [exists |-> TRUE, columns |-> cols, rows |-> rows]
NoFile == [exists |-> FALSE, columns |-> {}, rows |-> <<>>]

\* Files with more countries than a top-10 list holds: n countries, country c with
\* c bookings (countries t and t + 1 with t + 1 each), laid out in rounds over the
\* countries, upwards or downwards; the rates of a country vary around a base
\* rate that s shifts.
WideCountries == <<"AUT", "BEL", "BRA", "CHE", "DEU", "ESP", "FRA", "GBR", "IRL",
                   "ITA", "NLD", "PRT">>

Bookings(c, t) == IF c = t THEN t + 1 ELSE c

WideRows(n, t, up, s) ==
    LET grid == [k \in 1..(n * n) |->
                    <<((k - 1) \div n) + 1,
                      IF up THEN ((k - 1) % n) + 1 ELSE n - ((k - 1) % n)>>]
        cells == SelectSeq(grid, LAMBDA p : Bookings(p[2], t) >= p[1])
    IN  [k \in DOMAIN cells |->
            Row(IF k % 2 = 0 THEN City ELSE Resort,
                month_order[((k - 1) % 12) + 1],
                15,
                k % 2,
                WideCountries[cells[k][2]],
                40 + 10 * ((cells[k][2] * 3 + s) % 11)
                   + (IF cells[k][1] > 2 * (Bookings(cells[k][2], t) \div 2) THEN 0
                      ELSE IF cells[k][1] % 2 = 1 THEN 2 ELSE -2),
                k)]

----------------------------------------------------------------------------
(* Lines 11-15: load_data under st.cache_data *)

EmptyCache == [full |-> FALSE, value |-> <<>>]

\* pd.read_csv: the file's columns and rows, each row labelled by the RangeIndex.
read_csv(file) ==
    [columns |-> file.columns,
     rows |-> [i \in DOMAIN file.rows |-> file.rows[i] @@ ("index" :> (i - 1))]]

\* load_data() without the memo: the body runs on every call.
load_data_uncached(c, file) ==
    IF file.exists
    THEN [raised |-> FALSE, value |-> read_csv(file),
          cache |-> [full |-> TRUE, value |-> read_csv(file)], read |-> TRUE]
    ELSE [raised |-> TRUE, value |-> <<>>, cache |-> c, read |-> TRUE]

\* The decorated load_data(): a hit returns (a copy of) the memoized value without
\* running the body; a miss runs the body, and memoizes only a value it returned.
load_data(c, file) ==
    IF c.full THEN [raised |-> FALSE, value |-> c.value, cache |-> c, read |-> FALSE]
    ELSE IF file.exists
         THEN [raised |-> FALSE, value |-> read_csv(file),
               cache |-> [full |-> TRUE, value |-> read_csv(file)], read |-> TRUE]
         ELSE [raised |-> TRUE, value |-> <<>>, cache |-> c, read |-> TRUE]

NoFrame == [columns |-> {}, rows |-> <<>>]

Load ==
    /\ pc = "load"
    /\ LET r == load_data(cache, disk) IN
        /\ cache' = r.cache
        /\ reads' = IF r.read THEN reads + 1 ELSE reads
        /\ derivs' = IF r.read THEN 0 ELSE derivs
        /\ runsSince' = IF r.read THEN 1 ELSE runsSince + 1
        /\ df' = IF r.raised THEN NoFrame ELSE r.value
        /\ pc' = IF r.raised THEN "crashed" ELSE "preprocess"
    /\ UNCHANGED <<disk, runs, hotelSel, monthSel, faulty, hotel_type, month,
                   df_filtered, surface, log>>

----------------------------------------------------------------------------
(* Lines 18-22: the arrival_date column *)

MonthNumber(name) == CHOOSE k \in 1..12 : month_order[k] = name

DaysIn(y, m) ==
    IF m = 2 THEN (IF y % 4 = 0 /\ (y % 100 # 0 \/ y % 400 = 0) THEN 29 ELSE 28)
    ELSE IF m \in {4, 6, 9, 11} THEN 30 ELSE 31

\* pd.to_datetime("<year>-<month name>-<day>", errors='coerce'): the date, or NaT
\* when the month cell is missing or no month name, or the day is not in the month.
to_datetime(y, name, d) ==
    IF name \notin Range(month_order) THEN NaT
    ELSE IF d < 1 \/ d > DaysIn(y, MonthNumber(name)) THEN NaT
    ELSE <<y, MonthNumber(name), d>>

arrival_date(r) ==
    to_datetime(r.arrival_date_year, r.arrival_date_month, r.arrival_date_day_of_month)

\* frame[c] = values: the column is added, or replaced when it exists
WithColumn(frame, c, values) ==
    [columns |-> frame.columns \cup {c},
     rows |-> [i \in DOMAIN frame.rows |-> (c :> values[i]) @@ frame.rows[i]]]

arrival_dates(frame) == [i \in DOMAIN frame.rows |-> arrival_date(frame.rows[i])]

\* The derivation done once for a loaded table and skipped by later runs.
PreprocessOncePerLoad ==
    /\ pc = "preprocess"
    /\ IF DateCols \subseteq df.columns
       THEN /\ df' = WithColumn(df, "arrival_date", arrival_dates(df))
            /\ derivs' = IF derivs = 0 THEN 1 ELSE derivs
            /\ pc' = "sidebar"
       ELSE /\ pc' = "crashed"
            /\ UNCHANGED <<df, derivs>>
    /\ UNCHANGED <<disk, cache, reads, runsSince, runs, hotelSel, monthSel, faulty,
                   hotel_type, month, df_filtered, surface, log>>

Preprocess ==
    /\ pc = "preprocess"
    /\ IF DateCols \subseteq df.columns
       THEN /\ df' = WithColumn(df, "arrival_date", arrival_dates(df))
            /\ derivs' = derivs + 1
            /\ pc' = "sidebar"
       ELSE /\ pc' = "crashed"           \* KeyError, not caught
            /\ UNCHANGED <<df, derivs>>
    /\ UNCHANGED <<disk, cache, reads, runsSince, runs, hotelSel, monthSel, faulty,
                   hotel_type, month, df_filtered, surface, log>>

----------------------------------------------------------------------------
(* Lines 25-27: the two multiselects *)

Unset == [set |-> FALSE, value |-> <<>>]
Chosen(s) == [set |-> TRUE, value |-> s]

\* st.multiselect(label, options, default): raises when a default value is no
\* option; otherwise the user's selection, or the default while there is none.
multiselect(options, default, state) ==
    IF \E i \in DOMAIN default : default[i] \notin Range(options)
    THEN [raised |-> TRUE, value |-> <<>>]
    ELSE [raised |-> FALSE, value |-> IF state.set THEN state.value ELSE default]

HotelOptions(frame) == Unique(Column(frame.rows, "hotel"))
MonthOptions(frame) == Unique(Column(frame.rows, "arrival_date_month"))

HotelWidget(frame, state) == multiselect(HotelOptions(frame), HotelOptions(frame), state)
MonthWidget(frame, state) == multiselect(MonthOptions(frame), month_order, state)

Sidebar ==
    /\ pc = "sidebar"
    /\ IF "hotel" \notin df.columns
       THEN /\ pc' = "crashed"
            /\ UNCHANGED <<hotel_type, month>>
       ELSE LET h == HotelWidget(df, hotelSel)
                m == MonthWidget(df, monthSel)
            IN  /\ hotel_type' = IF h.raised THEN <<>> ELSE h.value
                /\ month' = IF h.raised \/ m.raised THEN <<>> ELSE m.value
                /\ pc' = IF h.raised \/ m.raised THEN "crashed" ELSE "filter"
    /\ UNCHANGED <<disk, cache, reads, derivs, runsSince, runs, hotelSel, monthSel,
                   faulty, df, df_filtered, surface, log>>

----------------------------------------------------------------------------
(* Line 29: the filtered view *)

\* Keep with an empty selection read as "no constraint".
KeepEmptyIsAll(r, hsel, msel) ==
    /\ (hsel = <<>> \/ IsIn(r.hotel, hsel))
    /\ (msel = <<>> \/ IsIn(r.arrival_date_month, msel))

Keep(r, hsel, msel) == IsIn(r.hotel, hsel) /\ IsIn(r.arrival_date_month, msel)

\* df[mask]: a new frame holding the rows of df whose mask is true, in order.
Filtered(frame, hsel, msel) ==
    [columns |-> frame.columns,
     rows |-> SelectSeq(frame.rows, LAMBDA r : Keep(r, hsel, msel))]

Filter ==
    /\ pc = "filter"
    /\ df_filtered' = Filtered(df, hotel_type, month)
    /\ pc' = "title"
    /\ UNCHANGED <<disk, cache, reads, derivs, runsSince, runs, hotelSel, monthSel,
                   faulty, df, hotel_type, month, surface, log>>

----------------------------------------------------------------------------
(* Page elements and log records *)

PanelTitle == <<"Booking Cancellation Rate", "Bookings by Hotel Type",
                "Monthly Booking Trends", "Top 10 Countries by Bookings",
                "Lead Time vs Cancellation", "ADR by Hotel Type",
                "Market Segment Share (%)", "Distribution Channel Share (%)",
                "Stay Duration (Weekday + Weekend)", "Top 10 Countries by ADR",
                "Guest Composition">>

PanelError == <<"Cancellation chart error", "Hotel type chart error",
                "Monthly trend chart error", "Top countries chart error",
                "Lead time boxplot error", "ADR chart error", "Market segment error",
                "Distribution channel error", "Stay duration error",
                "Top ADR chart error", "Guest composition chart error">>

Panels == DOMAIN PanelTitle

Title == [kind |-> "title", panel |-> 0, data |-> "Hotel Booking Dashboard"]
Subheader(i) == [kind |-> "subheader", panel |-> i, data |-> PanelTitle[i]]
Pyplot(i, d) == [kind |-> "pyplot", panel |-> i, data |-> d]
Markdown(t) == [kind |-> "markdown", panel |-> 0, data |-> t]

ErrorRecord(i) == [level |-> "ERROR", msg |-> PanelError[i]]

ShowTitle ==
    /\ pc = "title"
    /\ surface' = Append(surface, Title)
    /\ pc' = "p1"
    /\ UNCHANGED <<disk, cache, reads, derivs, runsSince, runs, hotelSel, monthSel,
                   faulty, df, hotel_type, month, df_filtered, log>>

----------------------------------------------------------------------------
(* Series helpers: a series is a sequence of [key, num, den], value num/den *)

Entry(k, n, d) == [key |-> k, num |-> n, den |-> d]

GE(a, b) == a.num * b.den >= b.num * a.den

\* sort_values without ascending=False.
RECURSIVE sort_values_ascending(_)
sort_values_ascending(S) ==
    IF S = {} THEN {<<>>}
    ELSE UNION {{<<x>> \o r : r \in sort_values_ascending(S \ {x})} :
                x \in {y \in S : \A z \in S : z.num * y.den >= y.num * z.den}}

\* Series.sort_values(ascending=False) with the default kind='quicksort', which is
\* not stable: every descending arrangement of the entries is a possible result.
RECURSIVE sort_values(_)
sort_values(S) ==
    IF S = {} THEN {<<>>}
    ELSE UNION {{<<x>> \o r : r \in sort_values(S \ {x})} :
                x \in {y \in S : \A z \in S : GE(y, z)}}

CountOf(s, k) == Cardinality({i \in DOMAIN s : s[i] = k})

\* The non-missing cells of a text column (a numeric column of the model has none).
dropna(s) == SelectSeq(s, LAMBDA k : k # NaN)

\* Series.value_counts() over the non-missing cells s: one entry per distinct
\* value, sorted by count, descending.
value_counts(s) == sort_values({Entry(k, CountOf(s, k), 1) : k \in Range(s)})

\* Series.value_counts(normalize=True) * 100: the shares in percent.
value_shares(s) == sort_values({Entry(k, 100 * CountOf(s, k), Len(s)) : k \in Range(s)})

\* The count of each distinct value, in order of first appearance.
counts(s) == [i \in DOMAIN Unique(s) |-> Entry(Unique(s)[i], CountOf(s, Unique(s)[i]), 1)]

\* round(a / b) to an integer, halves to the even neighbour (numpy's rint).
RoundHalfEven(a, b) ==
    LET q == a \div b
        r == a % b
    IN  IF 2 * r < b THEN q
        ELSE IF 2 * r > b THEN q + 1
        ELSE IF q % 2 = 0 THEN q ELSE q + 1

\* Series.round(1): each value to one decimal, kept as tenths.
round1(series) ==
    [i \in DOMAIN series |->
        Entry(series[i].key, RoundHalfEven(10 * series[i].num, series[i].den), 10)]

\* reindex that keeps only the labels the series holds.
reindex_present(series, labels) ==
    LET kept == SelectSeq(labels, LAMBDA l : \E j \in DOMAIN series : series[j].key = l)
    IN  [i \in DOMAIN kept |->
            [key |-> kept[i],
             value |-> Some((CHOOSE e \in Range(series) : e.key = kept[i]).num)]]

\* Series.reindex(labels): the value of each label, NaN for a label the series
\* does not hold; keys that are no label are dropped.
reindex(series, labels) ==
    [i \in DOMAIN labels |->
        [key |-> labels[i],
         value |-> IF \E j \in DOMAIN series : series[j].key = labels[i]
                   THEN Some((CHOOSE e \in Range(series) : e.key = labels[i]).num)
                   ELSE Absent]]

RECURSIVE SumSeq(_)
SumSeq(s) == IF s = <<>> THEN 0 ELSE s[1] + SumSeq(Tail(s))

RowsWith(rows, c, k) == SelectSeq(rows, LAMBDA r : r[c] = k)

----------------------------------------------------------------------------
(* Lines 35-166: the eleven panels.  panelK(frame, bad) is the set of possible  *)
(* results of the body of panel K's try block on the filtered view; bad says    *)
(* that a plotting or rendering call of the panel raises in this run.           *)

Ok(d, frame) == [ok |-> TRUE, data |-> d, frame |-> frame]
Fail(frame) == [ok |-> FALSE, data |-> <<>>, frame |-> frame]

Has(frame, cols) == cols \subseteq frame.columns

PieLabels == <<"Not Canceled", "Canceled">>

\* ax.pie(x, labels=PieLabels): the labels go to the wedges by position.
pie(x) == [i \in DOMAIN x |-> [label |-> PieLabels[i], num |-> x[i].num, den |-> x[i].den]]

\* 1. Booking Cancellation Rate: ax.pie raises unless x has as many values as labels.
panel1(frame, bad) ==
    IF ~Has(frame, {"is_canceled"}) THEN {Fail(frame)}
    ELSE {IF Len(cancel_rate) = Len(PieLabels) /\ ~bad THEN Ok(pie(cancel_rate), frame)
          ELSE Fail(frame) :
          cancel_rate \in value_shares(Column(frame.rows, "is_canceled"))}

\* 2. Bookings by Hotel Type: sns.countplot, one bar per hotel in order of appearance.
panel2(frame, bad) ==
    IF ~Has(frame, {"hotel"}) \/ bad THEN {Fail(frame)}
    ELSE {Ok(counts(dropna(Column(frame.rows, "hotel"))), frame)}

\* 3. Monthly Booking Trends: value_counts().reindex(month_order).  The reindex
\* puts the counts in the order of month_order whatever order the sort left them
\* in, so the counts are taken here in order of appearance.
panel3(frame, bad) ==
    IF ~Has(frame, {"arrival_date_month"}) \/ bad THEN {Fail(frame)}
    ELSE {Ok(reindex(counts(dropna(Column(frame.rows, "arrival_date_month"))), month_order),
             frame)}

\* 4. Top 10 Countries.
panel4(frame, bad) ==
    IF ~Has(frame, {"country"}) \/ bad THEN {Fail(frame)}
    ELSE {Ok(head(vc, TopN), frame) :
          vc \in value_counts(dropna(Column(frame.rows, "country")))}

RECURSIVE Ascending(_)
Ascending(S) ==
    IF S = {} THEN <<>>
    ELSE LET m == CHOOSE x \in S : \A y \in S : x <= y IN <<m>> \o Ascending(S \ {m})

\* The values of column y for each group of column x, the groups in the given order.
groups(rows, x, y, order) ==
    [i \in DOMAIN order |-> [key |-> order[i], values |-> Column(RowsWith(rows, x, order[i]), y)]]

\* 5. Lead Time vs Cancellation: one box per cancellation status, in numeric order.
panel5(frame, bad) ==
    IF ~Has(frame, {"is_canceled", "lead_time"}) \/ bad THEN {Fail(frame)}
    ELSE {Ok(groups(frame.rows, "is_canceled", "lead_time",
                    Ascending(Range(Column(frame.rows, "is_canceled")))), frame)}

\* 6. ADR by Hotel: one box per hotel, in order of appearance.
panel6(frame, bad) ==
    IF ~Has(frame, {"hotel", "adr"}) \/ bad THEN {Fail(frame)}
    ELSE {Ok(groups(frame.rows, "hotel", "adr", Unique(dropna(Column(frame.rows, "hotel")))),
             frame)}

\* 7. Market Segment Share.
panel7(frame, bad) ==
    IF ~Has(frame, {"market_segment"}) \/ bad THEN {Fail(frame)}
    ELSE {Ok(round1(segment), frame) :
          segment \in value_shares(dropna(Column(frame.rows, "market_segment")))}

\* 8. Distribution Channel Share.
panel8(frame, bad) ==
    IF ~Has(frame, {"distribution_channel"}) \/ bad THEN {Fail(frame)}
    ELSE {Ok(round1(channel), frame) :
          channel \in value_shares(dropna(Column(frame.rows, "distribution_channel")))}

Bins == 20

total_stay(r) == r.stays_in_week_nights + r.stays_in_weekend_nights

total_stays(frame) == [i \in DOMAIN frame.rows |-> total_stay(frame.rows[i])]

\* The sum written over an existing column instead of a new one.
with_total_stay_overwriting(frame) ==
    WithColumn(WithColumn(frame, "total_stay", total_stays(frame)),
               "stays_in_week_nights", total_stays(frame))

\* Line 136: df_filtered['total_stay'] = ...
with_total_stay(frame) == WithColumn(frame, "total_stay", total_stays(frame))

\* The counts of bins equal-width bins between the smallest and the largest value
\* (the last bin closed); equal values all fall into the bin around them.
histogram(values, bins) ==
    LET lo == CHOOSE x \in Range(values) : \A y \in Range(values) : x <= y
        hi == CHOOSE x \in Range(values) : \A y \in Range(values) : x >= y
        bin(v) == IF lo = hi THEN (bins \div 2) + 1
                  ELSE IF v = hi THEN bins
                  ELSE (((v - lo) * bins) \div (hi - lo)) + 1
    IN  IF values = <<>> THEN [b \in 1..bins |-> 0]
        ELSE [b \in 1..bins |-> Cardinality({i \in DOMAIN values : bin(values[i]) = b})]

\* 9. Stay Duration Histogram: the column is added before the chart is drawn.
panel9(frame, bad) ==
    IF ~Has(frame, {"stays_in_week_nights", "stays_in_weekend_nights"}) THEN {Fail(frame)}
    ELSE IF bad THEN {Fail(with_total_stay(frame))}
    ELSE {Ok(histogram(Column(with_total_stay(frame).rows, "total_stay"), Bins),
             with_total_stay(frame))}

\* groupby('country')['adr'].mean(): one entry per non-missing country.
mean_by(rows, x, y) ==
    {Entry(k, SumSeq(Column(RowsWith(rows, x, k), y)), Len(RowsWith(rows, x, k))) :
        k \in Range(dropna(Column(rows, x)))}

\* 10. Top 10 Countries by ADR.
panel10(frame, bad) ==
    IF ~Has(frame, {"country", "adr"}) \/ bad THEN {Fail(frame)}
    ELSE {Ok(head(top_adr, TopN), frame) :
          top_adr \in sort_values(mean_by(frame.rows, "country", "adr"))}

GuestCols == <<"adults", "children", "babies">>

\* 11. Guest Composition.
panel11(frame, bad) ==
    IF ~Has(frame, Range(GuestCols)) \/ bad THEN {Fail(frame)}
    ELSE {Ok([i \in DOMAIN GuestCols |->
                [key |-> GuestCols[i], value |-> SumSeq(Column(frame.rows, GuestCols[i]))]],
             frame)}

PanelPc == <<"p1", "p2", "p3", "p4", "p5", "p6", "p7", "p8", "p9", "p10", "p11">>

After(i) == IF i = Len(PanelPc) THEN "footer" ELSE PanelPc[i + 1]

\* A try block whose handler lets the exception through.
TryReraising(i, results) ==
    /\ pc = PanelPc[i]
    /\ \E r \in results :
        /\ surface' = IF r.ok THEN surface \o <<Subheader(i), Pyplot(i, r.data)>>
                      ELSE Append(surface, Subheader(i))
        /\ log' = IF r.ok THEN log ELSE Append(log, ErrorRecord(i))
        /\ df_filtered' = r.frame
        /\ pc' = IF r.ok THEN After(i) ELSE "crashed"
    /\ UNCHANGED <<disk, cache, reads, derivs, runsSince, runs, hotelSel, monthSel,
                   faulty, df, hotel_type, month>>

\* One try/except block: the subheader is emitted first; a body that ran to its
\* end has rendered its chart; an exception is caught and logged.
Try(i, results) ==
    /\ pc = PanelPc[i]
    /\ \E r \in results :
        /\ surface' = IF r.ok THEN surface \o <<Subheader(i), Pyplot(i, r.data)>>
                      ELSE Append(surface, Subheader(i))
        /\ log' = IF r.ok THEN log ELSE Append(log, ErrorRecord(i))
        /\ df_filtered' = r.frame
    /\ pc' = After(i)
    /\ UNCHANGED <<disk, cache, reads, derivs, runsSince, runs, hotelSel, monthSel,
                   faulty, df, hotel_type, month>>

Panel1 == Try(1, panel1(df_filtered, 1 \in faulty))
Panel2 == Try(2, panel2(df_filtered, 2 \in faulty))
Panel3 == Try(3, panel3(df_filtered, 3 \in faulty))
Panel4 == Try(4, panel4(df_filtered, 4 \in faulty))
Panel5 == Try(5, panel5(df_filtered, 5 \in faulty))
Panel6 == Try(6, panel6(df_filtered, 6 \in faulty))
Panel7 == Try(7, panel7(df_filtered, 7 \in faulty))
Panel8 == Try(8, panel8(df_filtered, 8 \in faulty))
Panel9 == Try(9, panel9(df_filtered, 9 \in faulty))
Panel10 == Try(10, panel10(df_filtered, 10 \in faulty))
Panel11 == Try(11, panel11(df_filtered, 11 \in faulty))

\* Lines 169-170.
Footer ==
    /\ pc = "footer"
    /\ surface' = surface \o <<Markdown("---"),
                               Markdown("Built with Streamlit | Created by Pravi Jain")>>
    /\ pc' = "done"
    /\ UNCHANGED <<disk, cache, reads, derivs, runsSince, runs, hotelSel, monthSel,
                   faulty, df, hotel_type, month, df_filtered, log>>

Script ==
    \/ Load \/ Preprocess \/ Sidebar \/ Filter \/ ShowTitle
    \/ Panel1 \/ Panel2 \/ Panel3 \/ Panel4 \/ Panel5 \/ Panel6
    \/ Panel7 \/ Panel8 \/ Panel9 \/ Panel10 \/ Panel11
    \/ Footer

----------------------------------------------------------------------------
(* Between runs: the user, and the environment *)

Idle == pc \in {"done", "crashed"}

\* A widget change or a manual rerun starts the script again from its first line.
StartRun ==
    /\ runs < MaxRuns
    /\ runs' = runs + 1
    /\ pc' = "load"
    /\ df' = NoFrame
    /\ hotel_type' = <<>>
    /\ month' = <<>>
    /\ df_filtered' = NoFrame
    /\ surface' = <<>>
    /\ log' = <<>>

PickMonths == {"January", "July", "Smarch", NaN}

UserSelectsHotel ==
    /\ pc = "done"
    /\ \E sel \in Picks(Range(HotelOptions(df)), MaxSel) : hotelSel' = Chosen(sel)
    /\ StartRun
    /\ UNCHANGED <<disk, cache, reads, derivs, runsSince, monthSel, faulty>>

UserSelectsMonth ==
    /\ pc = "done"
    /\ \E sel \in Picks(Range(MonthOptions(df)) \cap PickMonths, MaxSel) :
          monthSel' = Chosen(sel)
    /\ StartRun
    /\ UNCHANGED <<disk, cache, reads, derivs, runsSince, hotelSel, faulty>>

Rerun ==
    /\ Idle
    /\ StartRun
    /\ UNCHANGED <<disk, cache, reads, derivs, runsSince, hotelSel, monthSel, faulty>>

\* st.cache_data.clear(), or "Clear cache" in the app menu.
ClearCache ==
    /\ Idle
    /\ cache.full
    /\ cache' = EmptyCache
    /\ UNCHANGED <<disk, reads, derivs, runsSince, runs, hotelSel, monthSel, faulty, pc,
                   df, hotel_type, month, df_filtered, surface, log>>

SessionFiles ==
    {NoFile, File(AllCols, Calendar(1)), File(AllCols, Calendar(2)),
     File(AllCols, SubSeq(Calendar(1), 1, 2)),
     File(AllCols \ {"arrival_date_year"}, Calendar(1))}

\* The dataset file is replaced, removed or restored while the app is idle.
FileChanges ==
    /\ Idle
    /\ disk' \in SessionFiles \ {disk}
    /\ UNCHANGED <<cache, reads, derivs, runsSince, runs, hotelSel, monthSel, faulty, pc,
                   df, hotel_type, month, df_filtered, surface, log>>

----------------------------------------------------------------------------
(* Specifications *)

Fresh ==
    /\ cache = EmptyCache
    /\ reads = 0
    /\ derivs = 0
    /\ runsSince = 0
    /\ runs = 1
    /\ pc = "load"
    /\ df = NoFrame
    /\ hotel_type = <<>>
    /\ month = <<>>
    /\ df_filtered = NoFrame
    /\ surface = <<>>
    /\ log = <<>>

\* A session: the first run, then reruns.
Init ==
    /\ disk \in SessionFiles
    /\ hotelSel = Unset
    /\ monthSel = Unset
    /\ faulty = {}
    /\ Fresh

Next == Script \/ UserSelectsHotel \/ UserSelectsMonth \/ Rerun \/ ClearCache \/ FileChanges

Spec == Init /\ [][Next]_vars

\* One run over a file, for every file of a wider family and every widget state
\* an earlier run over that file can have left.
ViewFiles ==
    {File(AllCols, Calendar(v) \o t) : v \in {1, 2}, t \in Tails}
    \cup {File(AllCols, t) : t \in Tails}

InitView ==
    /\ disk \in ViewFiles
    /\ hotelSel \in {Unset} \cup
          {Chosen(p) : p \in Picks(Range(HotelOptions(read_csv(disk))), MaxSel)}
    /\ monthSel \in {Unset} \cup
          {Chosen(p) : p \in Picks(Range(MonthOptions(read_csv(disk))) \cap PickMonths, MaxSel)}
    /\ faulty = {}
    /\ Fresh

SpecView == InitView /\ [][Script]_vars

\* One run, for every set of panels whose plotting raises and for files that lack
\* a column.
InitPanels ==
    /\ \/ /\ disk = File(AllCols, Calendar(1))
          /\ faulty \in SUBSET Panels
       \/ /\ disk \in {File(AllCols \ {c}, Calendar(3)) : c \in AllCols}
          /\ faulty \in {{}, {9}, Panels}
    /\ hotelSel = Unset
    /\ monthSel = Unset
    /\ Fresh

SpecPanels == InitPanels /\ [][Script]_vars

\* One run over each of the files with many countries.
InitTop ==
    /\ disk \in {File(AllCols, WideRows(n, t, up, s)) :
                    n \in {9, 11, 12}, t \in {0, 2, 7}, up \in BOOLEAN, s \in {0, 1}}
    /\ hotelSel \in {Unset, Chosen(<<City>>)}
    /\ monthSel = Unset
    /\ faulty = {}
    /\ Fresh

SpecTop == InitTop /\ [][Script]_vars

----------------------------------------------------------------------------
(* Vocabulary of the properties *)

PastFilter == pc \in ({"title", "footer", "done"} \cup Range(PanelPc))

Indices(frame) == {frame.rows[i].index : i \in DOMAIN frame.rows}

ChartsOf(i) == {k \in DOMAIN surface : surface[k].kind = "pyplot" /\ surface[k].panel = i}

Rendered(i) == ChartsOf(i) # {}

ChartData(i) == surface[CHOOSE k \in ChartsOf(i) : TRUE].data

Logged(i) == {k \in DOMAIN log : log[k] = ErrorRecord(i)}

\* The rows of the view as line 29 left them: the columns of df only.
ViewRows == [i \in DOMAIN df_filtered.rows |->
                [c \in DOMAIN df_filtered.rows[i] \ {"total_stay"} |-> df_filtered.rows[i][c]]]

RowsWhere(frame, P(_)) == {i \in DOMAIN frame.rows : P(frame.rows[i])}

----------------------------------------------------------------------------
(* C1: once line 29 has run, a row of the table is in the filtered view if and    *)
(* only if its hotel is among the selected hotels and its arrival month is among  *)
(* the selected months; so an empty selection leaves no row.                      *)
C1_FilterIsMembership ==
    PastFilter =>
        /\ Indices(df_filtered) =
              {r.index : r \in {x \in Range(df.rows) :
                                   /\ x.hotel \in Range(hotel_type)
                                   /\ x.arrival_date_month \in Range(month)}}
        /\ Len(df_filtered.rows) = Cardinality(Indices(df_filtered))
        /\ (hotel_type = <<>> \/ month = <<>>) => df_filtered.rows = <<>>

\* A run over a non-empty table with an empty hotel selection and a non-empty
\* month selection that matches rows.
C1_Witness ==
    /\ pc = "title"
    /\ hotel_type = <<>>
    /\ \E r \in Range(df.rows) : r.arrival_date_month \in Range(month)
    /\ df_filtered.rows = <<>>

(* C2: when the user has changed neither control, each selection is the set of    *)
(* distinct values of its column and the filtered view holds exactly the rows of  *)
(* the loaded table.                                                              *)
C2_DefaultsKeepEveryRow ==
    (hotelSel = Unset /\ monthSel = Unset /\ pc \notin {"load", "preprocess", "sidebar"}) =>
        /\ pc # "crashed"
        /\ Range(hotel_type) = Range(HotelOptions(df))
        /\ Range(month) = Range(MonthOptions(df))
        /\ pc # "filter" => Indices(df_filtered) = Indices(df)

(* C9: the monthly trend that panel 3 draws has one entry per month of            *)
(* month_order, in that order; a month with bookings in the filtered view carries *)
(* their number, a month without carries no value.                                *)
C9_MonthlyTrendCanonical ==
    Rendered(3) =>
        /\ Len(ChartData(3)) = Len(month_order)
        /\ \A k \in DOMAIN month_order :
              LET n == Cardinality({i \in DOMAIN df_filtered.rows :
                          df_filtered.rows[i].arrival_date_month = month_order[k]})
              IN  /\ ChartData(3)[k].key = month_order[k]
                  /\ ChartData(3)[k].value = IF n > 0 THEN Some(n) ELSE Absent

\* Panel 3 drawn for months selected out of calendar order, one with bookings in the
\* view and others without.
C9_Witness ==
    /\ Rendered(3)
    /\ month = <<"July", "January">>
    /\ \E k \in DOMAIN month_order : ChartData(3)[k].value = Absent
    /\ \E k \in DOMAIN month_order : ChartData(3)[k].value # Absent /\ ChartData(3)[k].value[1] > 1

(* C10: in the pie of panel 1 the wedge labelled 'Canceled' carries the share of  *)
(* the rows whose is_canceled is 1 and the wedge labelled 'Not Canceled' the      *)
(* share of the rows whose is_canceled is 0, and the two shares add up to 100.    *)
C10_PieLabelsMatchStatus ==
    Rendered(1) =>
        LET n == Len(df_filtered.rows)
            canceled == Cardinality(RowsWhere(df_filtered, LAMBDA r : r.is_canceled = 1))
            share(l) == CHOOSE w \in Range(ChartData(1)) : w.label = l
        IN  /\ share("Canceled").num * n = 100 * canceled * share("Canceled").den
            /\ share("Not Canceled").num * n =
                  100 * (n - canceled) * share("Not Canceled").den
            /\ share("Canceled").num * share("Not Canceled").den
                 + share("Not Canceled").num * share("Canceled").den
               = 100 * share("Canceled").den * share("Not Canceled").den

----------------------------------------------------------------------------
PanelResults(i, frame, bad) ==
    CASE i = 1 -> panel1(frame, bad) [] i = 2 -> panel2(frame, bad)
      [] i = 3 -> panel3(frame, bad) [] i = 4 -> panel4(frame, bad)
      [] i = 5 -> panel5(frame, bad) [] i = 6 -> panel6(frame, bad)
      [] i = 7 -> panel7(frame, bad) [] i = 8 -> panel8(frame, bad)
      [] i = 9 -> panel9(frame, bad) [] i = 10 -> panel10(frame, bad)
      [] OTHER -> panel11(frame, bad)

\* What panel i can draw from the view of line 29 when nothing in the run fails.
Undisturbed(i) ==
    {r.data : r \in {x \in PanelResults(i, Filtered(df, hotel_type, month), FALSE) : x.ok}}

PanelsDone ==
    IF pc \in {"footer", "done"} THEN Len(PanelPc)
    ELSE IF pc \in Range(PanelPc) THEN (CHOOSE j \in Panels : PanelPc[j] = pc) - 1
    ELSE 0

PanelElements == SelectSeq(surface, LAMBDA e : e.panel # 0)

(* C3: a run that got past the filter never stops in a panel; every panel is      *)
(* attempted in the order 1..11; a panel that fails leaves one log record and no  *)
(* chart, every other panel draws exactly what it draws from the filtered view in *)
(* a run without failures; and the run ends with the footer.                      *)
C3_PanelsIndependent ==
    /\ pc = "crashed" => surface = <<>>
    /\ PastFilter =>
        /\ \A i \in Panels :
              IF i > PanelsDone THEN ~Rendered(i) /\ Logged(i) = {}
              ELSE IF i \in faulty \/ Undisturbed(i) = {}
                   THEN ~Rendered(i) /\ Cardinality(Logged(i)) = 1
                   ELSE /\ Cardinality(ChartsOf(i)) = 1
                        /\ ChartData(i) \in Undisturbed(i)
                        /\ Logged(i) = {}
        /\ \A a, b \in DOMAIN PanelElements :
              a < b => PanelElements[a].panel <= PanelElements[b].panel
        /\ \A a, b \in DOMAIN log :
              a < b => \E i, j \in Panels :
                          i < j /\ log[a] = ErrorRecord(i) /\ log[b] = ErrorRecord(j)
    /\ pc = "done" =>
        /\ Len(surface) >= 2
        /\ surface[Len(surface)].kind = "markdown"
        /\ surface[Len(surface) - 1] = Markdown("---")

\* A finished run in which panels 1, 9 and 10 failed and the others drew.
C3_Witness ==
    /\ pc = "done"
    /\ faulty = {1, 9, 10}
    /\ Len(log) = 3
    /\ \A i \in Panels \ faulty : Rendered(i)

(* C4: a panel that failed has put nothing on the page, neither heading nor       *)
(* chart, and has written exactly one error record.                               *)
C4_FailedPanelLeavesNothing ==
    \A i \in Panels :
        Logged(i) # {} =>
            /\ \A k \in DOMAIN surface : surface[k].panel # i
            /\ Cardinality(Logged(i)) = 1

(* C5: while the memo holds a table the file is not read: a call of load_data     *)
(* returns the memoized table, the memo and the number of reads stay as they are  *)
(* until the memo is cleared; and a load that fails memoizes nothing.             *)
C5_ReadOncePerMemo ==
    [][/\ (cache.full /\ cache'.full) => (reads' = reads /\ cache' = cache)
       /\ (pc = "load" /\ cache.full) => (df' = cache.value /\ pc' = "preprocess")
       /\ (pc = "load" /\ pc' = "crashed") => ~cache'.full]_vars

\* The third run of a session served from the memo of the first, after the file
\* on disk was replaced.
C5_Witness ==
    /\ runs = 3
    /\ reads = 1
    /\ pc = "done"
    /\ cache.full
    /\ disk.exists
    /\ read_csv(disk) # cache.value

(* C6 as stated: whatever reruns follow one load of the file, the arrival_date    *)
(* derivation has run exactly once since that load.                               *)
C6_DerivedOncePerLoad ==
    (cache.full /\ DateCols \subseteq cache.value.columns /\ pc \notin {"load", "preprocess"})
        => derivs = 1

(* C6 amended: the derivation runs once in every script run, so after one load    *)
(* of the file it has run as many times as the script has.                        *)
C6_DerivedOncePerRun ==
    (cache.full /\ DateCols \subseteq cache.value.columns) =>
        derivs = IF pc = "preprocess" THEN runsSince - 1 ELSE runsSince

\* Two filter changes after the only read of the file: three derivations.
C6_Witness ==
    /\ reads = 1
    /\ hotelSel.set
    /\ monthSel.set
    /\ pc = "done"
    /\ derivs = 3

(* C7: the filter step and the panels change neither the memoized table nor the   *)
(* table of the run; the memoized table changes only when the file is read or the *)
(* memo cleared; the filtered view keeps the rows and the columns line 29 gave    *)
(* it, panel 9 adding only total_stay; and panels 10 and 11 draw what they draw   *)
(* from the view without that column.                                             *)
C7_TableAndViewPreserved ==
    /\ [][/\ pc \in ({"filter"} \cup Range(PanelPc)) => (cache' = cache /\ df' = df)
          /\ cache' # cache => (pc = "load" \/ Idle)]_vars
    /\ [](PastFilter =>
            /\ ViewRows = Filtered(df, hotel_type, month).rows
            /\ df_filtered.columns \ {"total_stay"} = df.columns
            /\ cache.full =>
                  \A i \in DOMAIN ViewRows :
                      [c \in DOMAIN ViewRows[i] \ {"arrival_date"} |-> ViewRows[i][c]]
                          \in Range(cache.value.rows)
            /\ \A i \in DOMAIN df_filtered.rows :
                  "total_stay" \in DOMAIN df_filtered.rows[i] =>
                      df_filtered.rows[i].total_stay = total_stay(df_filtered.rows[i])
            /\ \A i \in {10, 11} : Rendered(i) => ChartData(i) \in Undisturbed(i))

\* A rerun with a narrowed selection, after panel 9 has added its column and
\* panels 10 and 11 have drawn.
C7_Witness ==
    /\ pc = "done"
    /\ runs > 1
    /\ "total_stay" \in df_filtered.columns
    /\ "total_stay" \notin df.columns
    /\ Rendered(10) /\ Rendered(11)
    /\ Len(df_filtered.rows) > 0
    /\ Len(df_filtered.rows) < Len(df.rows)

----------------------------------------------------------------------------
\* The countries of the filtered view with their number of bookings.
BookingsByCountry ==
    {Entry(c, Cardinality({i \in DOMAIN df_filtered.rows : df_filtered.rows[i].country = c}), 1) :
        c \in {df_filtered.rows[i].country : i \in DOMAIN df_filtered.rows} \ {NaN}}

\* The countries of the filtered view with the sum and the number of their rates.
RateByCountry ==
    {Entry(c,
           SumSeq(Column(RowsWith(df_filtered.rows, "country", c), "adr")),
           Cardinality({i \in DOMAIN df_filtered.rows : df_filtered.rows[i].country = c})) :
        c \in {df_filtered.rows[i].country : i \in DOMAIN df_filtered.rows} \ {NaN}}

FirstSeen(c) ==
    CHOOSE i \in DOMAIN df_filtered.rows :
        /\ df_filtered.rows[i].country = c
        /\ \A j \in 1..(i - 1) : df_filtered.rows[j].country # c

\* list holds the TopN first of ranking (all of it when it is shorter), highest
\* statistic first, and no country left out ranks above one that is in.
TopOf(list, ranking) ==
    /\ Len(list) = Min2(TopN, Cardinality(ranking))
    /\ Range(list) \subseteq ranking
    /\ Cardinality(Range(list)) = Len(list)
    /\ \A a, b \in DOMAIN list : a < b => GE(list[a], list[b])
    /\ \A e \in ranking \ Range(list) : \A a \in DOMAIN list : GE(list[a], e)

\* Countries with equal statistic stand in the order in which the view first shows
\* them, within the list and across its cut.
TiesByFirstSeen(list, ranking) ==
    /\ \A a, b \in DOMAIN list :
          (a < b /\ GE(list[b], list[a])) => FirstSeen(list[a].key) < FirstSeen(list[b].key)
    /\ \A e \in ranking \ Range(list) : \A a \in DOMAIN list :
          GE(e, list[a]) => FirstSeen(list[a].key) < FirstSeen(e.key)

(* C8 as stated: the lists of panel 4 and panel 10 hold at most 10 countries, the *)
(* 10 highest ranked (all when there are fewer), in descending order of their     *)
(* statistic, countries with equal statistic in first-encountered order.          *)
C8_TopTenTiesByFirstSeen ==
    /\ Rendered(4) => (TopOf(ChartData(4), BookingsByCountry)
                       /\ TiesByFirstSeen(ChartData(4), BookingsByCountry))
    /\ Rendered(10) => (TopOf(ChartData(10), RateByCountry)
                        /\ TiesByFirstSeen(ChartData(10), RateByCountry))

(* C8 amended: the lists of panel 4 and panel 10 hold at most 10 countries, as    *)
(* many as the view has up to 10, in descending order of their statistic, and no  *)
(* country left out has a higher statistic than one listed; the order among       *)
(* countries with equal statistic is not fixed.                                   *)
C8_TopTenDescending ==
    /\ Rendered(4) => TopOf(ChartData(4), BookingsByCountry)
    /\ Rendered(10) => TopOf(ChartData(10), RateByCountry)

\* Both lists drawn from a view with twelve countries, cut to ten, with two
\* countries of equal bookings on either side of the cut of panel 4.
C8_Witness ==
    /\ Rendered(4) /\ Rendered(10)
    /\ Cardinality(BookingsByCountry) = 12
    /\ Len(ChartData(4)) = TopN /\ Len(ChartData(10)) = TopN
    /\ \E e \in BookingsByCountry \ Range(ChartData(4)) : e.num = ChartData(4)[TopN].num
    /\ \E a \in 1..(TopN - 1) : GE(ChartData(10)[a + 1], ChartData(10)[a])

====
